---- MODULE Spec2Model ----
(***************************************************************************)
(* A model of regexlint's rule-checking engine (regexlint/checkers.py):    *)
(* the traversal primitives, the check_ functions, the two manual_         *)
(* validators, the alternation possibility expander and run_all_checkers.  *)
(*                                                                         *)
(* The parse tree comes from regexlint.parser, which is imported by        *)
(* checkers.py; the model keeps a tree as the sequence of its nodes in     *)
(* document order (node 1 is the root, 0 stands for None), built by        *)
(* the actions AddNode and Finish, which lay the nodes out over the        *)
(* pattern text.  Strings are sequences of one-character strings; "NL" is  *)
(* the newline character and "NUL" the null character.                     *)
(***************************************************************************)
EXTENDS Integers, Sequences, FiniteSets, TLC

VARIABLES
    tree,     \* the nodes of the parse tree, in document order
    raw,      \* the pattern text (Node.raw), set when parsing finishes
    phase,    \* "build", "parsed", or the name of the function that was called
    before,   \* the diagnostics list as it was handed to the called function
    errs,     \* the diagnostics list (errs)
    failure,  \* the failure that escaped the called function, or "none"
    order,    \* run_all_checkers: the order in which globals() lists the checkers
    k,        \* run_all_checkers: how many checkers have been invoked
    hist,     \* run_all_checkers: one entry per invoked checker
    args,     \* the arguments of a traversal or expander call
    out,      \* what the called generator has yielded so far
    taken     \* the expander: how many strings the current branch has given

vars == <<tree, raw, phase, before, errs, failure, order, k, hist, args, out, taken>>

(***************************************************************************)
(* Bounds of the model.                                                    *)
(***************************************************************************)
MaxNodesAlt == 8
MaxNodesAbstain == 11
MaxNodesNewline == 5
MaxNodesGroups == 8
MaxNodesBetween == 6
MaxDesired == 1
MaxNodesRun == 5
MaxBranches == 3
MaxElems == 4

NoneVal == 0 - 1

(***************************************************************************)
(* Strings.                                                                *)
(***************************************************************************)
RECURSIVE Concat(_)
Concat(ss) == IF ss = <<>> THEN <<>> ELSE Head(ss) \o Concat(Tail(ss))

StartsWith(t, p) == Len(p) <= Len(t) /\ SubSeq(t, 1, Len(p)) = p

Contains(s, c) == \E i \in 1..Len(s) : s[i] = c

\* str.find for a single character: the first 0-based index, or -1
Find(s, c) ==
    IF Contains(s, c)
    THEN (CHOOSE i \in 1..Len(s) : s[i] = c /\ \A j \in 1..(i - 1) : s[j] # c) - 1
    ELSE 0 - 1

IsPrefixOf(p, s) == Len(p) <= Len(s) /\ \A i \in 1..Len(p) : p[i] = s[i]

RECURSIVE SumSeq(_)
SumSeq(s) == IF s = <<>> THEN 0 ELSE Head(s) + SumSeq(Tail(s))

(***************************************************************************)
(* Token types.  A type is the path of its name below Other; "t in T" is   *)
(* true when t is T or a subtype of T.                                     *)
(***************************************************************************)
Progression == <<"Progression">>
Alternation == <<"Alternation">>
Literal == <<"Literal">>
Literals == <<"Literals">>
Newline == <<"Newline">>
Suspicious == <<"Suspicious">>
Directive == <<"Directive">>
CharClass == <<"CharClass">>
Repetition == <<"Repetition">>
OpenCapturing == <<"Open", "Capturing">>
OpenNamedCapturing == <<"Open", "NamedCapturing">>
OpenNonCapturing == <<"Open", "NonCapturing">>

TypeIn(t, T) == IsPrefixOf(T, t)

IsGroupType(t) == TypeIn(t, <<"Open">>)
IsLeafType(t) ==
    t \in {Literal, Literals, Newline, Suspicious, Directive, CharClass}

(***************************************************************************)
(* Nodes and navigation.                                                   *)
(***************************************************************************)
Tok(ty, d) ==
    [type |-> ty, parent |-> 0, data |-> d, chars |-> <<>>,
     start |-> NoneVal, end |-> NoneVal]

Idx(t) == 1..Len(t)

RECURSIVE SeqOfSet(_)
SeqOfSet(S) ==
    IF S = {} THEN <<>>
    ELSE LET m == CHOOSE x \in S : \A y \in S : x <= y
         IN <<m>> \o SeqOfSet(S \ {m})

\* Node.children: the immediate children, left to right
Children(t, i) == SeqOfSet({j \in Idx(t) : t[j].parent = i})

\* Node.parent(): the owning node, 0 (None) at the root
Parent(t, i) == t[i].parent

RECURSIVE IsAncestor(_, _, _)
IsAncestor(t, a, i) ==
    IF i = 0 \/ t[i].parent = 0 THEN FALSE
    ELSE t[i].parent = a \/ IsAncestor(t, a, t[i].parent)

\* Node.next(): the successor in the pre-order walk, 0 (None) at the end
NextNode(t, i) == IF i < Len(t) THEN i + 1 ELSE 0

\* Node.next_no_children(): the next node that is no descendant of i
NextNoChildren(t, i) ==
    LET later == {j \in Idx(t) : j > i /\ ~IsAncestor(t, i, j)}
    IN IF later = {} THEN 0 ELSE CHOOSE j \in later : \A m \in later : j <= m

(***************************************************************************)
(* The layout of a tree over the pattern text.                             *)
(***************************************************************************)
RECURSIVE Text(_, _)
RECURSIVE TextAll(_, _, _)
TextAll(t, cs, sep) ==
    IF cs = <<>> THEN <<>>
    ELSE IF Len(cs) = 1 THEN Text(t, cs[1])
    ELSE Text(t, cs[1]) \o sep \o TextAll(t, Tail(cs), sep)

Text(t, i) ==
    LET ty == t[i].type
        cs == Children(t, i)
    IN  IF IsLeafType(ty) THEN t[i].data
        ELSE IF ty = Alternation THEN TextAll(t, cs, <<"|">>)
        ELSE IF IsGroupType(ty) THEN t[i].data \o TextAll(t, cs, <<>>) \o <<")">>
        ELSE IF ty = Repetition THEN TextAll(t, cs, <<>>) \o t[i].data
        ELSE TextAll(t, cs, <<>>)

RECURSIVE StartOf(_, _)
StartOf(t, i) ==
    IF t[i].parent = 0 THEN 0
    ELSE LET p == t[i].parent
             sibs == {j \in Idx(t) : t[j].parent = p /\ j < i}
             lead == IF IsGroupType(t[p].type) THEN Len(t[p].data) ELSE 0
             seps == IF t[p].type = Alternation THEN Cardinality(sibs) ELSE 0
         IN StartOf(t, p) + lead + seps
              + SumSeq([n \in 1..Len(SeqOfSet(sibs)) |->
                           Len(Text(t, SeqOfSet(sibs)[n]))])

\* the parsed tree: every node carries its span.  When noRootPos holds the
\* root has no position, and neither has an empty branch right below it
Layout(t, noRootPos) ==
    [i \in Idx(t) |->
        [t[i] EXCEPT !.start = IF /\ noRootPos
                                  /\ \/ i = 1
                                     \/ /\ t[i].parent = 1
                                        /\ t[i].type = Progression
                                        /\ Children(t, i) = <<>>
                               THEN NoneVal ELSE StartOf(t, i),
                     !.end = StartOf(t, i) + Len(Text(t, i))]]

(***************************************************************************)
(* Traversal primitives.  A generator is modelled by the sequence of the   *)
(* values it yields.                                                       *)
(***************************************************************************)
RECURSIVE find_all(_, _, _)
find_all(t, first, second) ==
    IF first = 0 \/ first = second THEN <<>>
    ELSE <<first>> \o find_all(t, NextNode(t, first), second)

find_all_by_type(t, regex_root, T) ==
    SelectSeq(find_all(t, regex_root, 0), LAMBDA i : TypeIn(t[i].type, T))

RECURSIVE RootOf(_, _)
RootOf(t, i) == IF Parent(t, i) = 0 THEN i ELSE RootOf(t, Parent(t, i))

\* between with first advanced by next() instead of next_no_children()
between_next(t, first, second) ==
    IF first = 0
    THEN LET root == RootOf(t, second)
         IN IF Children(t, root) = <<>>
            THEN [out |-> <<>>, failure |-> "IndexError"]
            ELSE [out |-> find_all(t, Children(t, root)[1], second),
                  failure |-> "none"]
    ELSE [out |-> find_all(t, NextNode(t, first), second),
          failure |-> "none"]

\* between(first, second): what it yields, and the failure that ends it
between(t, first, second) ==
    IF first = 0
    THEN LET root == RootOf(t, second)
         IN IF Children(t, root) = <<>>
            THEN [out |-> <<>>, failure |-> "IndexError"]
            ELSE [out |-> find_all(t, Children(t, root)[1], second),
                  failure |-> "none"]
    ELSE [out |-> find_all(t, NextNoChildren(t, first), second),
          failure |-> "none"]

(***************************************************************************)
(* Diagnostics and the checkers.  A checker takes the tree, the pattern    *)
(* text and the diagnostics list, and gives the list as it leaves it and   *)
(* the failure it raised ("none" when it returned).                        *)
(***************************************************************************)
Diag(num, pos, msg) == [num |-> num, level |-> "ERROR", pos |-> pos, msg |-> msg]

Ret(e) == [errs |-> e, failure |-> "none"]
Raise(e, f) == [errs |-> e, failure |-> f]

\* n.start or 0
StartOr0(n) == IF n.start = NoneVal \/ n.start = 0 THEN 0 ELSE n.start

check_no_nulls(t, r, e) ==
    LET pos == Find(r, "NUL")
    IN IF pos # 0 - 1
       THEN Ret(Append(e, Diag("101", pos, <<"Null characters not allowed">>)))
       ELSE Ret(e)

\* check_no_newlines that skips only when every directive is verbose
check_no_newlines_all(t, r, e) ==
    LET directives == find_all_by_type(t, 1, Directive)
        pos == Find(r, "NL")
    IN IF directives # <<>>
          /\ \A d \in 1..Len(directives) : Contains(t[directives[d]].data, "x")
       THEN [errs |-> e, failure |-> "none"]
       ELSE IF pos # 0 - 1
       THEN [errs |-> Append(e, Diag("102", pos, <<"Newline characters not allowed">>)),
             failure |-> "none"]
       ELSE [errs |-> e, failure |-> "none"]

check_no_newlines(t, r, e) ==
    LET directives == find_all_by_type(t, 1, Directive)
        pos == Find(r, "NL")
    IN IF directives # <<>>
          /\ \E d \in 1..Len(directives) : Contains(t[directives[d]].data, "x")
       THEN Ret(e)
       ELSE IF pos # 0 - 1
       THEN Ret(Append(e, Diag("102", pos, <<"Newline characters not allowed">>)))
       ELSE Ret(e)

\* the loop of check_no_empty_alternations without the test of the parent's type
RECURSIVE EmptyAltLoop_anyparent(_, _, _)
EmptyAltLoop_anyparent(t, ns, e) ==
    IF ns = <<>> THEN e
    ELSE LET n == Head(ns)
             hit == Children(t, n) = <<>> /\ Parent(t, n) # 0
         IN EmptyAltLoop_anyparent(t, Tail(ns),
                IF hit
                THEN Append(e, Diag("103", StartOr0(t[n]),
                                    <<"Empty string allowed in alternation", StartOr0(t[n])>>))
                ELSE e)

RECURSIVE EmptyAltLoop(_, _, _)
EmptyAltLoop(t, ns, e) ==
    IF ns = <<>> THEN e
    ELSE LET n == Head(ns)
             hit == /\ Children(t, n) = <<>>
                    /\ Parent(t, n) # 0
                    /\ t[Parent(t, n)].type = Alternation
         IN EmptyAltLoop(t, Tail(ns),
                IF hit
                THEN Append(e, Diag("103", StartOr0(t[n]),
                                    <<"Empty string allowed in alternation", StartOr0(t[n])>>))
                ELSE e)

check_no_empty_alternations(t, r, e) ==
    Ret(EmptyAltLoop(t, find_all_by_type(t, 1, Progression), e))

(* character classes *)
CharCat(c) ==
    IF c \in {"a", "z", "A"} THEN "letter"
    ELSE IF c \in {"0", "9"} THEN "digit"
    ELSE "other"

Ord(c) ==
    IF c = "a" THEN 97 ELSE IF c = "z" THEN 122 ELSE IF c = "A" THEN 65
    ELSE IF c = "0" THEN 48 ELSE IF c = "9" THEN 57 ELSE 45

\* charclass() and ord() of a one-character payload
charclass(d) == CharCat(d[1])
ord(d) == Ord(d[1])

RECURSIVE RangeLoop(_, _, _)
RangeLoop(c, ps, e) ==
    IF ps = <<>> THEN Ret(e)
    ELSE LET p == Head(ps)
             astart == c.start + p.a.off
             hom == <<"Range in character class is not homogeneous", astart>>
             back == <<"Range in character class goes backwards", astart>>
             e1 == IF charclass(p.a.data) # charclass(p.b.data)
                   THEN Append(e, Diag("104", astart, hom)) ELSE e
             e2 == IF ord(p.a.data) >= ord(p.b.data)
                   THEN Append(e1, Diag("104", astart, back)) ELSE e1
         IN IF ~p.range THEN RangeLoop(c, Tail(ps), e)
            ELSE IF TypeIn(p.a.type, Literal) /\ TypeIn(p.b.type, Literal)
            THEN IF Len(p.a.data) # 1 \/ Len(p.b.data) # 1
                 THEN Raise(e, "AssertionError")
                 ELSE RangeLoop(c, Tail(ps), e2)
            ELSE RangeLoop(c, Tail(ps),
                     Append(e, Diag("104", 0,
                         <<"Range in character class is not homogeneous", c.start>>)))

RECURSIVE ClassLoop(_, _, _)
ClassLoop(t, cs, e) ==
    IF cs = <<>> THEN Ret(e)
    ELSE LET res == RangeLoop(t[Head(cs)], t[Head(cs)].chars, e)
         IN IF res.failure # "none" THEN res
            ELSE ClassLoop(t, Tail(cs), res.errs)

check_charclass_homogeneous_ranges(t, r, e) ==
    ClassLoop(t, find_all_by_type(t, 1, CharClass), e)

(* prefix ordering *)
IsLiteralLike(ty) ==
    \/ TypeIn(ty, Literal)
    \/ TypeIn(ty, Literals)
    \/ TypeIn(ty, Newline)
    \/ TypeIn(ty, Suspicious)

DataOf(t, cs) == Concat([n \in 1..Len(cs) |-> t[cs[n]].data])

\* the loop over n.children that never moves prev past the first branch
RECURSIVE BranchLoop_firstprev(_, _, _, _, _)
BranchLoop_firstprev(t, n, is, prev, e) ==
    IF is = <<>> THEN [errs |-> e, how |-> "break"]
    ELSE LET i == Head(is)
             xs == Children(t, i)
             tx == DataOf(t, xs)
         IN IF t[i].type # Progression
            THEN [errs |-> e, how |-> "AssertionError"]
            ELSE IF ~(\A x \in 1..Len(xs) : IsLiteralLike(t[xs[x]].type))
            THEN [errs |-> e, how |-> "return"]
            ELSE IF prev # <<>> /\ StartsWith(tx, prev[1])
            THEN [errs |-> Append(e, Diag("105", t[n].start,
                               <<"Potential out of order alternation", prev[1], tx>>)),
                  how |-> "break"]
            ELSE BranchLoop_firstprev(t, n, Tail(is),
                                      IF prev = <<>> THEN <<tx>> ELSE prev, e)

\* the loop over n.children; prev is <<>> for None and <<text>> otherwise.
\* Gives the list and how the loop ended: "break" (or exhausted), "return",
\* or the failure raised.
RECURSIVE BranchLoop(_, _, _, _, _)
BranchLoop(t, n, is, prev, e) ==
    IF is = <<>> THEN [errs |-> e, how |-> "break"]
    ELSE LET i == Head(is)
             xs == Children(t, i)
             tx == DataOf(t, xs)
         IN IF t[i].type # Progression
            THEN [errs |-> e, how |-> "AssertionError"]
            ELSE IF ~(\A x \in 1..Len(xs) : IsLiteralLike(t[xs[x]].type))
            THEN [errs |-> e, how |-> "return"]
            ELSE IF prev # <<>> /\ StartsWith(tx, prev[1])
            THEN [errs |-> Append(e, Diag("105", t[n].start,
                               <<"Potential out of order alternation", prev[1], tx>>)),
                  how |-> "break"]
            ELSE BranchLoop(t, n, Tail(is), <<tx>>, e)

\* the loop over the alternations with continue in the place of return
RECURSIVE AlternationLoop_continue(_, _, _)
AlternationLoop_continue(t, ns, e) ==
    IF ns = <<>> THEN [errs |-> e, failure |-> "none"]
    ELSE LET res == BranchLoop(t, Head(ns), Children(t, Head(ns)), <<>>, e)
         IN IF res.how \in {"return", "break"}
            THEN AlternationLoop_continue(t, Tail(ns), res.errs)
            ELSE [errs |-> res.errs, failure |-> res.how]

RECURSIVE AlternationLoop(_, _, _)
AlternationLoop(t, ns, e) ==
    IF ns = <<>> THEN Ret(e)
    ELSE LET res == BranchLoop(t, Head(ns), Children(t, Head(ns)), <<>>, e)
         IN IF res.how = "return" THEN Ret(res.errs)
            ELSE IF res.how = "break" THEN AlternationLoop(t, Tail(ns), res.errs)
            ELSE Raise(res.errs, res.how)

check_prefix_ordering(t, r, e) ==
    AlternationLoop(t, find_all_by_type(t, 1, Alternation), e)

check_no_python_named_capture_groups(t, r, e) ==
    LET ns == find_all_by_type(t, 1, OpenNamedCapturing)
    IN IF ns # <<>>
       THEN Ret(Append(e, Diag("106", t[ns[1]].start, <<"Python named capture group">>)))
       ELSE Ret(e)

manual_toknum(t, r, e, desired_number) ==
    LET n == Len(find_all_by_type(t, 1, OpenCapturing))
    IN IF n # desired_number
       THEN Ret(Append(e, Diag("107", 0, <<"Wrong number of groups", n, desired_number>>)))
       ELSE Ret(e)

\* the loop of manual_overlap without the quantifier of a Repetition parent
RECURSIVE OverlapLoop_noquantifier(_, _, _, _)
OverlapLoop_noquantifier(t, ns, prev_end, e) ==
    IF ns = <<>> THEN <<e, prev_end>>
    ELSE LET i == t[Head(ns)]
             e1 == IF i.start # prev_end
                   THEN Append(e, Diag("108", i.start, <<"Nested/gapped capture groups">>))
                   ELSE e
         IN OverlapLoop_noquantifier(t, Tail(ns), i.end, e1)

\* the loop of manual_overlap: gives <<errs, prev_end>>
RECURSIVE OverlapLoop(_, _, _, _)
OverlapLoop(t, ns, prev_end, e) ==
    IF ns = <<>> THEN <<e, prev_end>>
    ELSE LET i == t[Head(ns)]
             e1 == IF i.start # prev_end
                   THEN Append(e, Diag("108", i.start, <<"Nested/gapped capture groups">>))
                   ELSE e
             pe == IF t[i.parent].type = Repetition
                   THEN i.end + Len(t[i.parent].data)
                   ELSE i.end
         IN OverlapLoop(t, Tail(ns), pe, e1)

manual_overlap(t, r, e, desired_number) ==
    LET res == OverlapLoop(t, find_all_by_type(t, 1, OpenCapturing), 0, e)
    IN IF res[2] # t[1].end
       THEN Ret(Append(res[1], Diag("108", res[2], <<"Nested/gapped capture groups">>)))
       ELSE Ret(res[1])

(***************************************************************************)
(* Parsing: the tree grows node by node in document order, and Finish      *)
(* hands the finished tree over, laid out over the pattern text.           *)
(***************************************************************************)
A_Progression == Tok(Progression, <<>>)
A_Alternation == Tok(Alternation, <<>>)
A_a == Tok(Literal, <<"a">>)
A_ab == Tok(Literals, <<"a", "b">>)
A_newline == Tok(Newline, <<"NL">>)
A_null == Tok(Suspicious, <<"NUL">>)
A_group == Tok(OpenCapturing, <<"(">>)
A_named == Tok(OpenNamedCapturing, <<"(", "?", "P", "<", "n", ">">>)
A_noncap == Tok(OpenNonCapturing, <<"(", "?", ":">>)
A_star == Tok(Repetition, <<"*">>)
A_verbose == Tok(Directive, <<"(", "?", "x", ")">>)
A_ignorecase == Tok(Directive, <<"(", "?", "i", ")">>)

RightPath(t) == {Len(t)} \cup {a \in Idx(t) : IsAncestor(t, a, Len(t))}

CanHold(t, p, tok) ==
    IF p = 0 THEN tok.type \in {Progression, Alternation}
    ELSE IF t[p].type = Alternation THEN tok.type = Progression
    ELSE IF t[p].type = Progression THEN tok.type \notin {Progression, Alternation}
    ELSE IF IsGroupType(t[p].type)
    THEN tok.type \in {Progression, Alternation} /\ Children(t, p) = <<>>
    ELSE IF t[p].type = Repetition
    THEN /\ Children(t, p) = <<>>
         /\ (IsGroupType(tok.type) \/ tok.type \in {Literal, CharClass})
    ELSE FALSE

Complete(t) ==
    /\ t # <<>>
    /\ \A i \in Idx(t) :
        /\ IsGroupType(t[i].type) \/ t[i].type = Repetition => Len(Children(t, i)) = 1
        /\ t[i].type = Alternation => Len(Children(t, i)) >= 2

PriorDiag == Diag("107", 0, <<"Wrong number of groups", 0, 1>>)

AddNode(Alpha, max) ==
    /\ phase = "build"
    /\ Len(tree) < max
    /\ \E tok \in Alpha : \E p \in (IF tree = <<>> THEN {0} ELSE RightPath(tree)) :
          /\ CanHold(tree, p, tok)
          /\ tree' = Append(tree, [tok EXCEPT !.parent = p])
    /\ UNCHANGED <<raw, phase, before, errs, failure, order, k, hist, args, out, taken>>

Finish ==
    /\ phase = "build"
    /\ Complete(tree)
    /\ \E noRootPos \in BOOLEAN : tree' = Layout(tree, noRootPos)
    /\ raw' = Text(tree, 1)
    /\ \E b \in {<<>>, <<PriorDiag>>} : before' = b /\ errs' = b
    /\ phase' = "parsed"
    /\ UNCHANGED <<failure, order, k, hist, args, out, taken>>

\* a call of one checker on the parsed tree
Call(name, res) ==
    /\ phase = "parsed"
    /\ phase' = name
    /\ errs' = res.errs
    /\ failure' = res.failure
    /\ UNCHANGED <<tree, raw, before, order, k, hist, args, out, taken>>

InitTree ==
    /\ tree = <<>>
    /\ raw = <<>>
    /\ phase = "build"
    /\ before = <<>>
    /\ errs = <<>>
    /\ failure = "none"
    /\ order = <<>>
    /\ k = 0
    /\ hist = <<>>
    /\ args = <<>>
    /\ out = <<>>
    /\ taken = 0

(***************************************************************************)
(* Alternations: check_prefix_ordering and check_no_empty_alternations.    *)
(***************************************************************************)
AlphaAlt == {A_Progression, A_Alternation, A_a, A_ab, A_group}

CallPrefixOrdering ==
    Call("check_prefix_ordering", check_prefix_ordering(tree, raw, errs))

CallNoEmptyAlternations ==
    Call("check_no_empty_alternations", check_no_empty_alternations(tree, raw, errs))

NextAlt ==
    \/ AddNode(AlphaAlt, MaxNodesAlt)
    \/ Finish
    \/ CallPrefixOrdering
    \/ CallNoEmptyAlternations

SpecAlt == InitTree /\ [][NextAlt]_vars

AlphaAbstain == {A_Progression, A_Alternation, A_a, A_group}

NextAbstain ==
    \/ AddNode(AlphaAbstain, MaxNodesAbstain)
    \/ Finish
    \/ CallPrefixOrdering

SpecAbstain == InitTree /\ [][NextAbstain]_vars

\* the Alternation nodes, in document order
AltNodes(t) == SeqOfSet({i \in Idx(t) : t[i].type = Alternation})

BranchIsLiteral(t, b) ==
    \A x \in Idx(t) :
        t[x].parent = b => t[x].type \in {Literal, Literals, Newline, Suspicious}

BranchText(t, b) ==
    LET xs == Children(t, b) IN Concat([m \in 1..Len(xs) |-> t[xs[m]].data])

LiteralOnly(t) ==
    \A n \in Idx(t) : t[n].type = Alternation =>
        \A b \in Idx(t) : t[b].parent = n => BranchIsLiteral(t, b)

\* the positions j of the branches of n that start with the text of branch j-1
PrefixPairs(t, n) ==
    LET bs == Children(t, n)
    IN {j \in 2..Len(bs) : StartsWith(BranchText(t, bs[j]), BranchText(t, bs[j - 1]))}

FirstPair(t, n) == CHOOSE j \in PrefixPairs(t, n) : \A m \in PrefixPairs(t, n) : j <= m

PairDiag(t, n) ==
    LET bs == Children(t, n)
        j == FirstPair(t, n)
    IN Diag("105", t[n].start,
            <<"Potential out of order alternation",
              BranchText(t, bs[j - 1]), BranchText(t, bs[j])>>)

Expected105(t) ==
    LET hits == SelectSeq(AltNodes(t), LAMBDA n : PrefixPairs(t, n) # {})
    IN [m \in 1..Len(hits) |-> PairDiag(t, hits[m])]

IsAOrAB(t) ==
    /\ Len(t) = 5
    /\ t[1].type = Alternation
    /\ Children(t, 1) = <<2, 4>>
    /\ t[3].parent = 2 /\ t[3].data = <<"a">>
    /\ t[5].parent = 4 /\ t[5].data = <<"a", "b">>

HasNonLiteralBranch(t) == ~LiteralOnly(t)

\* C3 as stated: a non-literal token in any alternation branch leaves the
\* diagnostics list as it was.
C3_ZeroForWholeTree ==
    phase = "check_prefix_ordering" /\ HasNonLiteralBranch(tree) => errs = before

\* the scan of Alternation n reaches a non-literal branch before any prefix pair
Abstains(t, n) ==
    LET bs == Children(t, n)
    IN \E j \in 1..Len(bs) :
          /\ ~BranchIsLiteral(t, bs[j])
          /\ \A m \in 1..(j - 1) : BranchIsLiteral(t, bs[m])
          /\ \A m \in 2..(j - 1) :
                ~StartsWith(BranchText(t, bs[m]), BranchText(t, bs[m - 1]))

\* the scan of Alternation n reaches a prefix pair before any non-literal branch
Reports(t, n) ==
    LET bs == Children(t, n)
    IN \E j \in 2..Len(bs) :
          /\ \A m \in 1..j : BranchIsLiteral(t, bs[m])
          /\ StartsWith(BranchText(t, bs[j]), BranchText(t, bs[j - 1]))

ReportDiag(t, n) ==
    LET bs == Children(t, n)
        j == CHOOSE i \in 2..Len(bs) :
                /\ StartsWith(BranchText(t, bs[i]), BranchText(t, bs[i - 1]))
                /\ \A m \in 2..(i - 1) :
                      ~StartsWith(BranchText(t, bs[m]), BranchText(t, bs[m - 1]))
    IN Diag("105", t[n].start,
            <<"Potential out of order alternation",
              BranchText(t, bs[j - 1]), BranchText(t, bs[j])>>)

ExpectedUntilAbstain(t) ==
    LET scanned == SelectSeq(AltNodes(t),
                       LAMBDA n : \A m \in Idx(t) :
                           t[m].type = Alternation /\ Abstains(t, m) => n < m)
        hits == SelectSeq(scanned, LAMBDA n : Reports(t, n))
    IN [m \in 1..Len(hits) |-> ReportDiag(t, hits[m])]

\* C3 (amended): when a branch holds a non-literal token, check_prefix_ordering
\* returns at the first Alternation whose scan reaches a non-literal branch
\* before a prefix pair, appending nothing for it or for any later Alternation;
\* the diagnostics of the Alternations scanned before it are appended and kept.
C3_AbstainKeepsEarlier ==
    phase = "check_prefix_ordering" /\ HasNonLiteralBranch(tree) =>
        /\ failure = "none"
        /\ errs = before \o ExpectedUntilAbstain(tree)

\* an earlier literal-only Alternation was reported, a later one made the
\* checker return
C3_Witness ==
    /\ phase = "check_prefix_ordering"
    /\ \E n, m \in Idx(tree) :
          /\ n < m
          /\ tree[n].type = Alternation /\ tree[m].type = Alternation
          /\ ~IsAncestor(tree, n, m)
          /\ Reports(tree, n)
          /\ Abstains(tree, m)
    /\ Len(errs) = Len(before) + 1

(* empty alternation branches *)
EmptyBranches(t) ==
    SeqOfSet({i \in Idx(t) :
                /\ t[i].type = Progression
                /\ ~(\E c \in Idx(t) : t[c].parent = i)
                /\ t[i].parent # 0
                /\ t[t[i].parent].type = Alternation})

PosOf(n) == IF n.start = NoneVal THEN 0 ELSE n.start

Expected103(t) ==
    LET bs == EmptyBranches(t)
    IN [m \in 1..Len(bs) |->
          Diag("103", PosOf(t[bs[m]]),
               <<"Empty string allowed in alternation", PosOf(t[bs[m]])>>)]

\* the tree of a| : a root Alternation of a and the empty branch
IsAOrEmpty(t) ==
    /\ Len(t) = 4
    /\ t[1].type = Alternation
    /\ Children(t, 1) = <<2, 4>>
    /\ t[3].parent = 2 /\ t[3].data = <<"a">>

\* the tree of (a|) : the same Alternation inside a capturing group
IsGroupAOrEmpty(t) ==
    /\ Len(t) = 6
    /\ t[1].type = Progression
    /\ t[2].type = OpenCapturing /\ t[2].parent = 1
    /\ t[3].type = Alternation /\ t[3].parent = 2
    /\ Children(t, 3) = <<4, 6>>
    /\ t[5].parent = 4 /\ t[5].data = <<"a">>

\* C8: check_no_empty_alternations appends, in document order, exactly one
\* 103 diagnostic for every childless Progression whose parent is an
\* Alternation, at its start offset (0 when absent), and nothing else; a| and
\* (a|) give exactly one diagnostic each.
C8_EmptyAlternations ==
    phase = "check_no_empty_alternations" =>
        /\ failure = "none"
        /\ errs = before \o Expected103(tree)
        /\ IsAOrEmpty(tree) \/ IsGroupAOrEmpty(tree) => Len(errs) = Len(before) + 1

C8_Witness ==
    /\ phase = "check_no_empty_alternations"
    /\ IsGroupAOrEmpty(tree)
    /\ Len(errs) = Len(before) + 1
    /\ errs[Len(errs)].pos = 3

C8_WitnessRoot ==
    /\ phase = "check_no_empty_alternations"
    /\ IsAOrEmpty(tree)
    /\ tree[4].start = NoneVal
    /\ errs = before \o <<Diag("103", 0, <<"Empty string allowed in alternation", 0>>)>>

(***************************************************************************)
(* Newlines: check_no_newlines.                                            *)
(***************************************************************************)
AlphaNewline ==
    {A_Progression, A_a, A_newline, A_verbose, A_ignorecase, A_group}

CallNoNewlines == Call("check_no_newlines", check_no_newlines(tree, raw, errs))

NextNewline ==
    \/ AddNode(AlphaNewline, MaxNodesNewline)
    \/ Finish
    \/ CallNoNewlines

SpecNewline == InitTree /\ [][NextNewline]_vars

HasVerboseDirective(t) ==
    \E i \in Idx(t) : t[i].type = Directive /\ \E c \in 1..Len(t[i].data) : t[i].data[c] = "x"

FirstNewlineAt(r, pos) ==
    /\ pos \in 0..(Len(r) - 1)
    /\ r[pos + 1] = "NL"
    /\ \A j \in 1..pos : r[j] # "NL"

\* C9: check_no_newlines appends nothing when some Directive's payload holds
\* the flag character x; otherwise it appends exactly one 102 diagnostic at
\* the index of the first newline of the pattern text when there is one, and
\* nothing when there is none.
C9_NoNewlines ==
    phase = "check_no_newlines" =>
        /\ failure = "none"
        /\ HasVerboseDirective(tree) => errs = before
        /\ ~HasVerboseDirective(tree) /\ ~Contains(raw, "NL") => errs = before
        /\ ~HasVerboseDirective(tree) /\ Contains(raw, "NL") =>
              \E pos \in 0..(Len(raw) - 1) :
                  /\ FirstNewlineAt(raw, pos)
                  /\ errs = before \o
                        <<Diag("102", pos, <<"Newline characters not allowed">>)>>

\* a verbose directive and another directive, and a newline in the pattern
C9_Witness ==
    /\ phase = "check_no_newlines"
    /\ HasVerboseDirective(tree)
    /\ \E i \in Idx(tree) : tree[i].type = Directive /\ ~Contains(tree[i].data, "x")
    /\ Contains(raw, "NL")
    /\ errs = before

(***************************************************************************)
(* Capturing groups: manual_toknum and manual_overlap.                     *)
(***************************************************************************)
AlphaGroups == {A_Progression, A_Alternation, A_a, A_group, A_noncap, A_star}

CallToknum ==
    \E d \in 0..MaxDesired : Call("manual_toknum", manual_toknum(tree, raw, errs, d))

CallOverlap ==
    \E d \in 0..MaxDesired : Call("manual_overlap", manual_overlap(tree, raw, errs, d))

NextGroups ==
    \/ AddNode(AlphaGroups, MaxNodesGroups)
    \/ Finish
    \/ CallToknum
    \/ CallOverlap

SpecGroups == InitTree /\ [][NextGroups]_vars

\* the capturing groups, in document order
Groups(t) == SeqOfSet({i \in Idx(t) : t[i].type = OpenCapturing})

QuantifierLen(t, g) ==
    IF t[g].parent # 0 /\ t[t[g].parent].type = Repetition
    THEN Len(t[t[g].parent].data) ELSE 0

Tiles(t) ==
    LET gs == Groups(t)
    IN /\ gs # <<>>
       /\ t[gs[1]].start = 0
       /\ \A m \in 2..Len(gs) :
             t[gs[m]].start = t[gs[m - 1]].end + QuantifierLen(t, gs[m - 1])
       /\ t[gs[Len(gs)]].end = t[1].end

LiteralBetweenGroups(t) ==
    \E g1, g2, l \in Idx(t) :
        /\ t[g1].type = OpenCapturing /\ t[g2].type = OpenCapturing
        /\ t[l].type \in {Literal, Literals, Newline, Suspicious}
        /\ t[l].end > t[l].start
        /\ ~(\E g \in Idx(t) : t[g].type = OpenCapturing /\ IsAncestor(t, g, l))
        /\ t[g1].end <= t[l].start
        /\ t[l].end <= t[g2].start

NestedGroups(t) ==
    \E g1, g2 \in Idx(t) :
        /\ t[g1].type = OpenCapturing /\ t[g2].type = OpenCapturing
        /\ IsAncestor(t, g1, g2)

Added(e, b) == SubSeq(e, Len(b) + 1, Len(e))

\* C5: manual_overlap appends nothing when the capturing groups tile the
\* pattern (the first starts at 0, each next one starts where the one before
\* ended plus the quantifier text of its Repetition parent, the last ends at
\* the tree's end), and appends at least one 108 diagnostic when a literal
\* outside every capturing group lies between two groups or a capturing group
\* is nested in another.
C5_Overlap ==
    phase = "manual_overlap" =>
        /\ failure = "none"
        /\ IsPrefixOf(before, errs)
        /\ Tiles(tree) => errs = before
        /\ LiteralBetweenGroups(tree) \/ NestedGroups(tree) =>
              /\ Len(errs) > Len(before)
              /\ \A m \in 1..Len(Added(errs, before)) : Added(errs, before)[m].num = "108"

\* two groups tile the pattern, the first one under a quantifier
C5_Witness ==
    /\ phase = "manual_overlap"
    /\ Tiles(tree)
    /\ Len(Groups(tree)) = 2
    /\ QuantifierLen(tree, Groups(tree)[1]) > 0
    /\ before # <<>>
    /\ errs = before

(***************************************************************************)
(* between(first, second).                                                 *)
(***************************************************************************)
AlphaBetween == {A_Progression, A_Alternation, A_a, A_group}

CallBetween ==
    /\ phase = "parsed"
    /\ \E first \in 0..Len(tree) : \E second \in 1..Len(tree) :
          /\ args' = <<first, second>>
          /\ out' = between(tree, first, second).out
          /\ failure' = between(tree, first, second).failure
    /\ phase' = "between"
    /\ UNCHANGED <<tree, raw, before, errs, order, k, hist, taken>>

NextBetween ==
    \/ AddNode(AlphaBetween, MaxNodesBetween)
    \/ Finish
    \/ CallBetween

SpecBetween == InitTree /\ [][NextBetween]_vars

\* the nodes strictly between first and second in document order, outside
\* first's subtree; with first = None, from the root's first child to second
StrictlyBetween(t, first, second) ==
    IF first = 0
    THEN SeqOfSet({j \in Idx(t) : j >= 2 /\ j < second})
    ELSE SeqOfSet({j \in Idx(t) : j > first /\ j < second /\ ~IsAncestor(t, first, j)})

SecondIsAhead(t, first, second) ==
    IF first = 0 THEN second >= 2
    ELSE second > first /\ ~IsAncestor(t, first, second)

AfterSubtree(t, first) ==
    IF first = 0
    THEN SeqOfSet({j \in Idx(t) : j >= 2})
    ELSE SeqOfSet({j \in Idx(t) : j > first /\ ~IsAncestor(t, first, j)})

Pair(c) == [kind |-> "pair", first |-> "str", second |-> <<c>>]
NodeElem == [kind |-> "Node", first |-> "", second |-> <<>>]
CharRangeElem == [kind |-> "CharRange", first |-> "", second |-> <<>>]
Elems == {Pair("a"), Pair("b"), NodeElem, CharRangeElem}

RECURSIVE TotalLen(_)
TotalLen(alt) == IF alt = <<>> THEN 0 ELSE Len(Head(alt)) + TotalLen(Tail(alt))

\* _alternation_helper(i) that appends the rest in front of the literal
RECURSIVE helper_swapped(_)
helper_swapped(i) ==
    IF i = <<>> THEN [out |-> << <<>> >>, failure |-> "none"]
    ELSE IF Head(i).kind = "Node" THEN [out |-> <<>>, failure |-> "NotImplementedError"]
    ELSE IF Head(i).kind = "CharRange"
    THEN [out |-> <<>>, failure |-> "NotImplementedError"]
    ELSE LET sub == helper_swapped(Tail(i))
         IN [out |-> [j \in 1..Len(sub.out) |-> sub.out[j] \o Head(i).second],
             failure |-> sub.failure]

\* _alternation_helper(i) that passes over a Node or CharRange
RECURSIVE helper_skips(_)
helper_skips(i) ==
    IF i = <<>> THEN [out |-> << <<>> >>, failure |-> "none"]
    ELSE LET sub == helper_skips(Tail(i))
         IN [out |-> [j \in 1..Len(sub.out) |-> Head(i).second \o sub.out[j]],
             failure |-> sub.failure]

\* _alternation_helper(i): the strings it yields, and the failure that ends it
RECURSIVE alternation_helper(_)
alternation_helper(i) ==
    IF i = <<>> THEN [out |-> << <<>> >>, failure |-> "none"]
    ELSE IF Head(i).kind = "Node" THEN [out |-> <<>>, failure |-> "NotImplementedError"]
    ELSE IF Head(i).kind = "CharRange"
    THEN [out |-> <<>>, failure |-> "NotImplementedError"]
    ELSE LET sub == alternation_helper(Tail(i))
         IN [out |-> [j \in 1..Len(sub.out) |-> Head(i).second \o sub.out[j]],
             failure |-> sub.failure]

InitExpand ==
    /\ tree = <<>>
    /\ raw = <<>>
    /\ phase = "compose"
    /\ before = <<>>
    /\ errs = <<>>
    /\ failure = "none"
    /\ order = <<>>
    /\ k = 0
    /\ hist = <<>>
    /\ args = <<>>
    /\ out = <<>>
    /\ taken = 0

\* the caller puts the 2d list together: a new branch, ...
ComposeBranch ==
    /\ phase = "compose"
    /\ Len(args) < MaxBranches
    /\ args' = Append(args, <<>>)
    /\ UNCHANGED <<tree, raw, phase, before, errs, failure, order, k, hist, out, taken>>

\* ... an element at the end of the last branch, ...
ComposeElem ==
    /\ phase = "compose"
    /\ args # <<>>
    /\ TotalLen(args) < MaxElems
    /\ \E x \in Elems : args' = [args EXCEPT ![Len(args)] = Append(@, x)]
    /\ UNCHANGED <<tree, raw, phase, before, errs, failure, order, k, hist, out, taken>>

\* ... and calls get_alternation_possibilities(alt)
Create ==
    /\ phase = "compose"
    /\ phase' = "created"
    /\ UNCHANGED <<tree, raw, before, errs, failure, order, k, hist, args, out, taken>>

Live == phase \in {"created", "suspended"}

\* what one next() of the consumer runs into, from branch k + 1 on, the
\* current branch's helper having given `n` strings: the next yield, the
\* failure of a helper, or the end of the loop over alt
RECURSIVE Advance(_, _, _)
Advance(alt, b, n) ==
    IF b = Len(alt) THEN [kind |-> "stop", k |-> b, taken |-> n]
    ELSE LET h == alternation_helper(alt[b + 1])
         IN IF n < Len(h.out)
            THEN [kind |-> "yield", k |-> b, taken |-> n + 1, value |-> h.out[n + 1]]
            ELSE IF h.failure # "none"
            THEN [kind |-> "raise", k |-> b, taken |-> n, failure |-> h.failure]
            ELSE Advance(alt, b + 1, 0)

\* next(): the generator runs up to its next yield
GenYield ==
    /\ Live
    /\ Advance(args, k, taken).kind = "yield"
    /\ out' = Append(out, Advance(args, k, taken).value)
    /\ k' = Advance(args, k, taken).k
    /\ taken' = Advance(args, k, taken).taken
    /\ phase' = "suspended"
    /\ UNCHANGED <<tree, raw, before, errs, failure, order, hist, args>>

\* next(): a branch's helper raises, and the generator with it
GenRaise ==
    /\ Live
    /\ Advance(args, k, taken).kind = "raise"
    /\ failure' = Advance(args, k, taken).failure
    /\ k' = Advance(args, k, taken).k
    /\ taken' = Advance(args, k, taken).taken
    /\ phase' = "raised"
    /\ UNCHANGED <<tree, raw, before, errs, order, hist, args, out>>

\* next(): no branch is left, the generator ends (StopIteration)
GenStop ==
    /\ Live
    /\ Advance(args, k, taken).kind = "stop"
    /\ k' = Advance(args, k, taken).k
    /\ taken' = Advance(args, k, taken).taken
    /\ phase' = "stopped"
    /\ UNCHANGED <<tree, raw, before, errs, failure, order, hist, args, out>>

NextExpand ==
    \/ ComposeBranch
    \/ ComposeElem
    \/ Create
    \/ GenYield
    \/ GenRaise
    \/ GenStop

SpecExpand == InitExpand /\ [][NextExpand]_vars

AllPairs(alt) ==
    \A b \in 1..Len(alt) : \A x \in 1..Len(alt[b]) : alt[b][x].kind = "pair"

\* the in-order concatenation of the second components of a branch
Joined(b) == Concat([x \in 1..Len(b) |-> b[x].second])

STR_a == <<"a">>
STR_b == <<"b">>

\* C6: for branches of literal-token pairs the generator yields one string per
\* branch, in branch order, each the concatenation of the second components
\* of the branch ("" for an empty branch), and then ends; [[]] yields "" and
\* [[(t,'a')],[(t,'b')]] yields "a" then "b".
C6_OnePerBranch ==
    AllPairs(args) /\ phase \in {"created", "suspended", "raised", "stopped"} =>
        /\ phase # "raised"
        /\ Len(out) <= Len(args)
        /\ \A b \in 1..Len(out) : out[b] = Joined(args[b])
        /\ phase = "stopped" => Len(out) = Len(args)
        /\ phase = "stopped" /\ args = << <<>> >> => out = << <<>> >>
        /\ phase = "stopped" /\ args = << <<Pair("a")>>, <<Pair("b")>> >> =>
              out = <<STR_a, STR_b>>

C6_Witness ==
    /\ phase = "stopped"
    /\ args = << <<Pair("a"), Pair("b")>>, <<>>, <<Pair("b")>> >>
    /\ out = << <<"a", "b">>, <<>>, <<"b">> >>

Unsupported(alt) ==
    {b \in 1..Len(alt) : \E x \in 1..Len(alt[b]) : alt[b][x].kind \in {"Node", "CharRange"}}

\* C7 as stated: when a branch holds a Node or a CharRange, no string has
\* been produced when the generator fails.
C7_NothingBeforeFailure ==
    phase = "raised" /\ Unsupported(args) # {} => out = <<>>

\* C7 (amended): when a branch holds a Node or a CharRange the generator never
\* ends normally; it yields the strings of the branches before the first such
\* branch, one per branch and in order, and then fails with
\* NotImplementedError, having produced no string of that branch or of any
\* later one.
C7_FailsAtFirstUnsupported ==
    phase \in {"created", "suspended", "raised", "stopped"} /\ Unsupported(args) # {} =>
        LET f == CHOOSE b \in Unsupported(args) : \A c \in Unsupported(args) : b <= c
        IN /\ phase # "stopped"
           /\ Len(out) <= f - 1
           /\ \A b \in 1..Len(out) : out[b] = Joined(args[b])
           /\ phase = "raised" => Len(out) = f - 1 /\ failure = "NotImplementedError"

\* the unsupported element sits at the end of the third branch
C7_Witness ==
    /\ phase = "raised"
    /\ Len(args) = 3
    /\ Unsupported(args) = {3}
    /\ Len(args[3]) = 2 /\ args[3][2].kind = "CharRange"
    /\ Len(out) = 2

(***************************************************************************)
(* run_all_checkers.                                                       *)
(***************************************************************************)
\* character classes: [a-z], [a-9], and [a-9\x00-a], whose second range
\* starts at a literal of four characters
RangeItem(ta, da, oa, tb, db, ob) ==
    [range |-> TRUE,
     a |-> [type |-> ta, data |-> da, off |-> oa],
     b |-> [type |-> tb, data |-> db, off |-> ob]]

A_class_az ==
    [Tok(CharClass, <<"[", "a", "-", "z", "]">>) EXCEPT
        !.chars = <<RangeItem(Literal, <<"a">>, 1, Literal, <<"z">>, 3)>>]

A_class_a9 ==
    [Tok(CharClass, <<"[", "a", "-", "9", "]">>) EXCEPT
        !.chars = <<RangeItem(Literal, <<"a">>, 1, Literal, <<"9">>, 3)>>]

A_class_hex ==
    [Tok(CharClass, <<"[", "a", "-", "9", "\\", "x", "0", "0", "-", "a", "]">>) EXCEPT
        !.chars = <<RangeItem(Literal, <<"a">>, 1, Literal, <<"9">>, 3),
                    RangeItem(Literal, <<"\\", "x", "0", "0">>, 4, Literal, <<"a">>, 9)>>]

AlphaRun ==
    {A_Progression, A_Alternation, A_a, A_newline, A_null, A_verbose,
     A_named, A_class_az, A_class_a9, A_class_hex}

CheckerNames ==
    <<"check_no_nulls", "check_no_newlines", "check_no_empty_alternations",
      "check_charclass_homogeneous_ranges", "check_prefix_ordering",
      "check_no_python_named_capture_groups">>

Reverse(q) == [i \in 1..Len(q) |-> q[Len(q) + 1 - i]]
Rotate(q, n) == [i \in 1..Len(q) |-> q[((i + n - 1) % Len(q)) + 1]]

\* the orders in which the interpreter's globals() may list the checkers
Orders == {CheckerNames, Reverse(CheckerNames), Rotate(CheckerNames, 3)}

\* f(regex, errs)
Apply(f, t, r, e) ==
    CASE f = "check_no_nulls" -> check_no_nulls(t, r, e)
      [] f = "check_no_newlines" -> check_no_newlines(t, r, e)
      [] f = "check_no_empty_alternations" -> check_no_empty_alternations(t, r, e)
      [] f = "check_charclass_homogeneous_ranges" ->
            check_charclass_homogeneous_ranges(t, r, e)
      [] f = "check_prefix_ordering" -> check_prefix_ordering(t, r, e)
      [] f = "check_no_python_named_capture_groups" ->
            check_no_python_named_capture_groups(t, r, e)

\* the failures that are instances of Exception
ExceptionClasses == {"AssertionError", "IndexError", "NotImplementedError"}

Diag999(f, fail) == Diag("999", 0, <<"Checker encountered error parsing", f, fail>>)

\* errs = [] and the start of the loop over globals()
StartRun ==
    /\ phase = "parsed"
    /\ phase' = "running"
    /\ errs' = <<>>
    /\ before' = <<>>
    /\ \E o \in Orders : order' = o
    /\ k' = 0
    /\ hist' = <<>>
    /\ UNCHANGED <<tree, raw, failure, args, out, taken>>

\* one turn of the loop, with break in the except clause
RunChecker_breaks ==
    /\ phase = "running"
    /\ k < Len(order)
    /\ LET f == order[k + 1]
           res == Apply(f, tree, raw, errs)
       IN /\ hist' = Append(hist, [name |-> f, before |-> errs,
                                   left |-> res.errs, failure |-> res.failure])
          /\ IF res.failure = "none"
             THEN errs' = res.errs /\ k' = k + 1
             ELSE errs' = Append(res.errs, Diag999(f, res.failure)) /\ k' = Len(order)
          /\ UNCHANGED <<phase, failure>>
    /\ UNCHANGED <<tree, raw, before, order, args, out, taken>>

\* one turn of the loop, with errs = [...] in the except clause
RunChecker_rebinds ==
    /\ phase = "running"
    /\ k < Len(order)
    /\ LET f == order[k + 1]
           res == Apply(f, tree, raw, errs)
       IN /\ hist' = Append(hist, [name |-> f, before |-> errs,
                                   left |-> res.errs, failure |-> res.failure])
          /\ k' = k + 1
          /\ IF res.failure = "none"
             THEN errs' = res.errs
             ELSE errs' = <<Diag999(f, res.failure)>>
          /\ UNCHANGED <<phase, failure>>
    /\ UNCHANGED <<tree, raw, before, order, args, out, taken>>

\* one turn of the loop: the next checker is invoked inside try/except
RunChecker ==
    /\ phase = "running"
    /\ k < Len(order)
    /\ LET f == order[k + 1]
           res == Apply(f, tree, raw, errs)
       IN /\ hist' = Append(hist, [name |-> f, before |-> errs,
                                   left |-> res.errs, failure |-> res.failure])
          /\ k' = k + 1
          /\ IF res.failure = "none"
             THEN errs' = res.errs /\ UNCHANGED <<phase, failure>>
             ELSE IF res.failure \in ExceptionClasses
             THEN /\ errs' = Append(res.errs, Diag999(f, res.failure))
                  /\ UNCHANGED <<phase, failure>>
             ELSE /\ errs' = res.errs
                  /\ phase' = "raised"
                  /\ failure' = res.failure
    /\ UNCHANGED <<tree, raw, before, order, args, out, taken>>

\* return errs
Return ==
    /\ phase = "running"
    /\ k = Len(order)
    /\ phase' = "returned"
    /\ out' = errs
    /\ UNCHANGED <<tree, raw, before, errs, failure, order, k, hist, args, taken>>

NextRun ==
    \/ AddNode(AlphaRun, MaxNodesRun)
    \/ Finish
    \/ StartRun
    \/ RunChecker
    \/ Return

SpecRun == InitTree /\ [][NextRun]_vars

\* the list as the m-th invoked checker's turn of the loop left it
AfterTurn(m) == IF m < Len(hist) THEN hist[m + 1].before ELSE errs

\* C1: run_all_checkers never raises: when a checker raises, the runner
\* appends exactly one diagnostic ('999', ERROR, 0, message naming the checker
\* and the failure) to what the checker left, goes on to invoke every
\* remaining checker, and returns the diagnostics list.
C1_RunnerNeverRaises ==
    /\ phase # "raised"
    /\ phase \in {"running", "returned"} =>
          /\ failure = "none"
          /\ Len(hist) = k
          /\ \A m \in 1..Len(hist) :
                /\ hist[m].name = order[m]
                /\ hist[m].failure # "none" =>
                      AfterTurn(m) = Append(hist[m].left,
                                            Diag999(hist[m].name, hist[m].failure))
          /\ phase = "returned" => k = Len(order) /\ out = errs

\* a checker raised and checkers were invoked after it
C1_Witness ==
    /\ phase = "returned"
    /\ \E m \in 1..(Len(hist) - 1) :
          /\ hist[m].failure = "AssertionError"
          /\ Len(hist[m + 1].left) > Len(hist[m + 1].before)
    /\ Len(hist) = Len(CheckerNames)

\* what one checker contributes to the list of a run
Contribution(f) ==
    LET res == Apply(f, tree, raw, <<>>)
    IN IF res.failure = "none" THEN res.errs
       ELSE Append(res.errs, Diag999(f, res.failure))

\* C4: the diagnostics list of a run only grows: the list a checker was handed
\* is a prefix of the list it leaves, which is a prefix of the list after its
\* turn; what a checker appended before it raised is followed directly by its
\* 999 entry; and the returned list is the concatenation of the checkers'
\* contributions in execution order.
C4_AppendOnly ==
    phase \in {"running", "returned"} =>
        /\ \A m \in 1..Len(hist) :
              /\ IsPrefixOf(hist[m].before, hist[m].left)
              /\ IsPrefixOf(hist[m].left, AfterTurn(m))
              /\ Len(AfterTurn(m)) <= Len(hist[m].left) + 1
              /\ hist[m].failure # "none" =>
                    /\ Len(AfterTurn(m)) = Len(hist[m].left) + 1
                    /\ AfterTurn(m)[Len(AfterTurn(m))].num = "999"
        /\ phase = "returned" =>
              out = Concat([m \in 1..Len(order) |-> Contribution(order[m])])

\* a checker appended diagnostics to a non-empty list and then raised
C4_Witness ==
    /\ phase = "returned"
    /\ \E m \in 1..Len(hist) :
          /\ hist[m].failure # "none"
          /\ hist[m].before # <<>>
          /\ Len(hist[m].left) > Len(hist[m].before)
          /\ m < Len(hist)
          /\ Len(out) > Len(AfterTurn(m))

====
